---- MODULE Spec2Model ----
(***************************************************************************)
(* Model of the job recommendation engine of ai.py:                        *)
(*   calculate_match_score, recommend_jobs_for_new_candidate,              *)
(*   create_notification, recommend_for_single_candidate,                  *)
(*   recommend_for_all_new_candidates and train_model.                     *)
(*                                                                         *)
(* Text fields are sequences of one-character strings, so that split(","), *)
(* strip() and lower() are computed and not assumed.  A field of a         *)
(* MongoDB document is a tagged value: present ("str"/"num"), null         *)
(* ("none"), a non-numeric string where a number is expected ("bad"), or   *)
(* absent from the document ("missing").  Scores are kept in hundredths    *)
(* (10000 is 100.00) after round(score, 2).                                *)
(***************************************************************************)
EXTENDS Integers, Sequences, FiniteSets, TLC

VARIABLES candidate, jobs, top_n, trained, classes, top_categories,
          recommendations, phase1_failed, result, score, pc,
          profiles, notifications, runs, calls

vars == <<candidate, jobs, top_n, trained, classes, top_categories,
          recommendations, phase1_failed, result, score, pc,
          profiles, notifications, runs, calls>>

----------------------------------------------------------------------------
(* Bounds of the model *)

MaxSkills == 2
MaxExp == 2
MaxJobs == 3
MaxTopN == 2
MaxRuns == 3

----------------------------------------------------------------------------
(* Field values of a document *)

Str(s) == [tag |-> "str", val |-> s]
NoneText == [tag |-> "none", val |-> <<>>]
MissingText == [tag |-> "missing", val |-> <<>>]
Num(n) == [tag |-> "num", val |-> n]
NoneNum == [tag |-> "none", val |-> 0]
BadNum == [tag |-> "bad", val |-> 0]
MissingNum == [tag |-> "missing", val |-> 0]

(* dict.get(key, default): the default only replaces an absent key *)
Get(field, default) == IF field.tag = "missing" THEN default ELSE field

Min(a, b) == IF a < b THEN a ELSE b
Max(a, b) == IF a > b THEN a ELSE b

----------------------------------------------------------------------------
(* str.strip(), str.lower(), str.split(",") *)

RECURSIVE LStrip(_)
LStrip(s) == IF s # <<>> /\ Head(s) = " " THEN LStrip(Tail(s)) ELSE s

RECURSIVE RStrip(_)
RStrip(s) ==
    IF s # <<>> /\ s[Len(s)] = " " THEN RStrip(SubSeq(s, 1, Len(s) - 1)) ELSE s

Strip(s) == RStrip(LStrip(s))

LowerChar(ch) ==
    CASE ch = "A" -> "a"
      [] ch = "B" -> "b"
      [] ch = "X" -> "x"
      [] ch = "Y" -> "y"
      [] OTHER -> ch

Lower(s) == [i \in 1..Len(s) |-> LowerChar(s[i])]

(* s.split(","): the pieces between commas, empty pieces included *)
RECURSIVE SplitFrom(_, _, _)
SplitFrom(s, i, piece) ==
    IF i > Len(s) THEN <<piece>>
    ELSE IF s[i] = "," THEN <<piece>> \o SplitFrom(s, i + 1, <<>>)
    ELSE SplitFrom(s, i + 1, Append(piece, s[i]))

Split(s) == SplitFrom(s, 1, <<>>)

(* set(s.strip().lower() for s in text.split(",") if s) *)
SkillSet(text) ==
    LET pieces == Split(text)
    IN {Lower(Strip(pieces[i])) : i \in {k \in 1..Len(pieces) : pieces[k] # <<>>}}

----------------------------------------------------------------------------
(* calculate_match_score.  A term is a fraction <<numerator, denominator>>. *)

(* mutant: the overlap is measured against the candidate's skills *)
SkillTermOverCandidate(candidate_skills, job_skills) ==
    IF candidate_skills # {} /\ job_skills # {}
    THEN <<Cardinality(candidate_skills \cap job_skills) * 50, Cardinality(candidate_skills)>>
    ELSE <<0, 1>>

SkillTerm(candidate_skills, job_skills) ==
    IF candidate_skills # {} /\ job_skills # {}
    THEN <<Cardinality(candidate_skills \cap job_skills) * 50, Cardinality(job_skills)>>
    ELSE <<0, 1>>

(* mutant: partial credit with the full weight of 30 *)
ExperienceTermFullWeight(candidate_exp, job_exp) ==
    IF candidate_exp >= job_exp
    THEN <<30, 1>>
    ELSE <<candidate_exp * 30, Max(job_exp, 1)>>

ExperienceTerm(candidate_exp, job_exp) ==
    IF candidate_exp >= job_exp
    THEN <<30, 1>>
    ELSE <<candidate_exp * 15, Max(job_exp, 1)>>

LocationTerm(candidate_location, job_location) ==
    IF Lower(Strip(candidate_location)) = Lower(Strip(job_location))
    THEN <<20, 1>>
    ELSE <<0, 1>>

AddFrac(a, b) == <<a[1] * b[2] + b[1] * a[2], a[2] * b[2]>>

(* round(x, 2) of the fraction x, in hundredths; an exact tie goes to even *)
Round2(x) ==
    LET n == x[1] * 100
        q == n \div x[2]
        r == n % x[2]
    IN  IF 2 * r < x[2] THEN q
        ELSE IF 2 * r > x[2] THEN q + 1
        ELSE IF q % 2 = 0 THEN q ELSE q + 1

(* float(v): raises on None and on a non-numeric string *)
FloatRaises(v) == v.tag \in {"none", "bad"}

(* x.split / x.strip on None raises AttributeError *)
TextRaises(v) == v.tag = "none"

ScoreRaises(c, j) ==
    \/ TextRaises(Get(c.skills, Str(<<>>)))
    \/ TextRaises(Get(j.required_skills, Str(<<>>)))
    \/ FloatRaises(Get(c.experience, Num(0)))
    \/ FloatRaises(Get(j.experience_required, Num(0)))
    \/ TextRaises(Get(c.location, Str(<<>>)))
    \/ TextRaises(Get(j.location, Str(<<>>)))

CandidateSkillSet(c) == SkillSet(Get(c.skills, Str(<<>>)).val)
JobSkillSet(j) == SkillSet(Get(j.required_skills, Str(<<>>)).val)

UnroundedScore(c, j) ==
    AddFrac(AddFrac(SkillTerm(CandidateSkillSet(c), JobSkillSet(j)),
                    ExperienceTerm(Get(c.experience, Num(0)).val,
                                   Get(j.experience_required, Num(0)).val)),
            LocationTerm(Get(c.location, Str(<<>>)).val,
                         Get(j.location, Str(<<>>)).val))

calculate_match_score(c, j) ==
    IF ScoreRaises(c, j)
    THEN [raised |-> TRUE, value |-> 0]
    ELSE [raised |-> FALSE, value |-> Round2(UnroundedScore(c, j))]

----------------------------------------------------------------------------
(* Inputs of the scoring specification: every skills text made of at most  *)
(* MaxSkills comma-separated pieces, experiences in 0..MaxExp.             *)

RECURSIVE JoinComma(_)
JoinComma(pieces) ==
    IF pieces = <<>> THEN <<>>
    ELSE IF Len(pieces) = 1 THEN pieces[1]
    ELSE pieces[1] \o <<",">> \o JoinComma(Tail(pieces))

SeqsUpTo(S, n) == UNION {[1..k -> S] : k \in 0..n}

CandidatePieces == {<<>>, <<" ">>, <<" ", "A">>, <<"b">>}
JobPieces == {<<>>, <<" ">>, <<"a">>, <<"b", " ">>}

ScoreCandidates ==
    {[email |-> "e1", skills |-> sk, bio |-> Str(<<>>),
      experience |-> Num(e), location |-> Str(loc)] :
        sk \in {Str(JoinComma(ps)) : ps \in SeqsUpTo(CandidatePieces, MaxSkills)}
               \cup {MissingText},
        e \in 0..MaxExp,
        loc \in {<<"x">>, <<" ", "X">>}}

ScoreJobs ==
    {[title |-> "T1", company |-> "CoA", required_skills |-> sk,
      experience_required |-> Num(e), location |-> Str(loc)] :
        sk \in {Str(JoinComma(ps)) : ps \in SeqsUpTo(JobPieces, MaxSkills)},
        e \in 0..MaxExp,
        loc \in {<<"x">>, <<"y">>}}

NoCandidate ==
    [email |-> "", skills |-> MissingText, bio |-> MissingText,
     experience |-> MissingNum, location |-> MissingText]

NoScore == [raised |-> FALSE, value |-> 0]

InitScore ==
    /\ candidate \in ScoreCandidates
    /\ \E j \in ScoreJobs : jobs = <<j>>
    /\ top_n = 0
    /\ trained = FALSE
    /\ classes = {}
    /\ top_categories = {}
    /\ recommendations = <<>>
    /\ phase1_failed = FALSE
    /\ result = <<>>
    /\ score = NoScore
    /\ pc = "score_call"
    /\ profiles = <<>>
    /\ notifications = <<>>
    /\ runs = 0
    /\ calls = <<>>

(* one call of calculate_match_score(candidate, job) *)
ScoreCall ==
    /\ pc = "score_call"
    /\ score' = calculate_match_score(candidate, jobs[1])
    /\ pc' = "scored"
    /\ UNCHANGED <<candidate, jobs, top_n, trained, classes, top_categories,
                   recommendations, phase1_failed, result,
                   profiles, notifications, runs, calls>>

NextScore == ScoreCall

SpecScore == InitScore /\ [][NextScore]_vars

----------------------------------------------------------------------------
(* The jobs collection and the candidate records of the recommendation     *)
(* specification.                                                          *)

Job(title, company, skills, exp, loc) ==
    [title |-> title, company |-> company, required_skills |-> skills,
     experience_required |-> exp, location |-> loc]

JobA == Job("T1", "CoA", Str(<<"a", ",", "b">>), Num(0), Str(<<"x">>))
JobB == Job("T1", "CoA", Str(<<"a">>), Num(3), Str(<<"y">>))
JobC == Job("T2", "CoB", Str(<<>>), Num(4), Str(<<"x">>))
JobD == Job("T3", "CoC", Str(<<"b">>), Num(2), Str(<<"y">>))
JobE == Job("T1", "CoA", Str(<<"a">>), Num(0), NoneText)
JobF == Job("T2", "CoB", Str(<<"a">>), BadNum, Str(<<"x">>))
JobG == Job("T3", "CoD", Str(<<"c">>), Num(2), Str(<<"x">>))
JobH == Job("T4", "CoE", Str(<<"c">>), Num(1), Str(<<"y">>))
JobI == Job("T5", "CoE", Str(<<"c">>), Num(1), Str(<<"y">>))
JobJ == Job("T6", "CoE", Str(<<"c">>), Num(1), Str(<<"y">>))
JobK == Job("T7", "CoE", Str(<<"c">>), Num(1), Str(<<"y">>))

(* the documents of the jobs collection, which train_model reads *)
JobCatalogue == <<JobA, JobB, JobC, JobD, JobE, JobF, JobG, JobH, JobI, JobJ, JobK>>

(* the documents the job sequences of a call are drawn from *)
ServedJobs == {JobA, JobB, JobC, JobD, JobE, JobF, JobG}

(* sequences of distinct documents *)
DistinctSeqsUpTo(S, n) ==
    {s \in UNION {[1..k -> S] : k \in 0..n} :
        \A i, k \in 1..Len(s) : i # k => s[i] # s[k]}

Range(f) == {f[i] : i \in DOMAIN f}

Candidate(email, skills, bio, exp, loc) ==
    [email |-> email, skills |-> skills, bio |-> bio,
     experience |-> exp, location |-> loc]

CandA == Candidate("e1", Str(<<"a", ",", "b">>), Str(<<"d">>), Num(0), Str(<<"x">>))
CandB == Candidate("e2", Str(<<" ", "A">>), Str(<<>>), Num(1), Str(<<" ", "Y", " ">>))
CandC == Candidate("e3", MissingText, Str(<<" ">>), Num(1), Str(<<"x">>))
CandD == Candidate("e4", Str(<<" ">>), Str(<<>>), Num(0), Str(<<"x">>))
CandE == Candidate("e5", Str(<<"a">>), Str(<<"d">>), NoneNum, Str(<<"x">>))

CandidateCatalogue == {CandA, CandB, CandC, CandD, CandE}

----------------------------------------------------------------------------
(* train_model: the label encoder's classes are the titles of the corpus *)

TrainedClasses(corpus) == {corpus[i].title : i \in DOMAIN corpus}

----------------------------------------------------------------------------
(* recommend_jobs_for_new_candidate *)

ExperienceWindow == 3
OverFetch == 3
Phase1Threshold == 10
Phase2Threshold == 5

(* `not x` of a text value: None and the empty string are falsy *)
Falsy(v) == v.tag = "none" \/ v.val = <<>>

(* float(job.get("experience_required", 0) or 0) *)
JobExpRaises(job) == Get(job.experience_required, Num(0)).tag = "bad"
JobExp(job) ==
    LET v == Get(job.experience_required, Num(0))
    IN IF v.tag = "num" THEN v.val ELSE 0

(* mutant: the boundary job is skipped as well *)
OutsideWindowInclusive(candidate_experience, job_exp) ==
    candidate_experience + 3 <= job_exp

(* the relaxed experience filter: the job is skipped *)
OutsideWindow(candidate_experience, job_exp) ==
    candidate_experience + ExperienceWindow < job_exp

(* the labels of np.argsort(proba)[-top_n * 3:]: which labels the trained  *)
(* classifier ranks highest is left open                                   *)
TopCategorySets(cls, n) ==
    {S \in SUBSET cls : Cardinality(S) = Min(OverFetch * n, Cardinality(cls))}

Rec(i, match_score, phase) == [job |-> i, match_score |-> match_score, phase |-> phase]

(* lines 109-119: the first pass; an exception leaves the loop with what   *)
(* was appended before it                                                  *)
RECURSIVE Phase1Loop(_, _, _, _, _, _)
Phase1Loop(c, js, candidate_experience, cats, i, recs) ==
    IF i > Len(js) THEN [recs |-> recs, failed |-> FALSE]
    ELSE IF JobExpRaises(js[i]) THEN [recs |-> recs, failed |-> TRUE]
    ELSE IF OutsideWindow(candidate_experience, JobExp(js[i]))
         THEN Phase1Loop(c, js, candidate_experience, cats, i + 1, recs)
    ELSE IF js[i].title \in cats
         THEN LET m == calculate_match_score(c, js[i])
              IN IF m.raised THEN [recs |-> recs, failed |-> TRUE]
                 ELSE IF m.value > Phase1Threshold * 100
                      THEN Phase1Loop(c, js, candidate_experience, cats, i + 1,
                                      Append(recs, Rec(i, m.value, 1)))
                      ELSE Phase1Loop(c, js, candidate_experience, cats, i + 1, recs)
    ELSE Phase1Loop(c, js, candidate_experience, cats, i + 1, recs)

(* mutant: a recommendation with the same title is enough to skip the job *)
AlreadyRecommendedByTitle(js, recs, job) ==
    \E k \in 1..Len(recs) : js[recs[k].job].title = job.title

(* lines 133-135: a recommendation with the same title and company exists *)
AlreadyRecommended(js, recs, job) ==
    \E k \in 1..Len(recs) :
        /\ js[recs[k].job].title = job.title
        /\ js[recs[k].job].company = job.company

(* lines 125-140: the fallback pass; an exception here is not caught *)
RECURSIVE Phase2Loop(_, _, _, _, _)
Phase2Loop(c, js, candidate_experience, i, recs) ==
    IF i > Len(js) THEN [recs |-> recs, raised |-> FALSE]
    ELSE IF JobExpRaises(js[i]) THEN [recs |-> recs, raised |-> TRUE]
    ELSE IF OutsideWindow(candidate_experience, JobExp(js[i]))
         THEN Phase2Loop(c, js, candidate_experience, i + 1, recs)
    ELSE IF AlreadyRecommended(js, recs, js[i])
         THEN Phase2Loop(c, js, candidate_experience, i + 1, recs)
    ELSE LET m == calculate_match_score(c, js[i])
         IN IF m.raised THEN [recs |-> recs, raised |-> TRUE]
            ELSE IF m.value > Phase2Threshold * 100
                 THEN Phase2Loop(c, js, candidate_experience, i + 1,
                                 Append(recs, Rec(i, m.value, 2)))
                 ELSE Phase2Loop(c, js, candidate_experience, i + 1, recs)

(* mutant: equal scores end up in reverse order *)
InsertDescUnstable(sorted, e) ==
    LET k == Cardinality({i \in 1..Len(sorted) : sorted[i].match_score > e.match_score})
    IN SubSeq(sorted, 1, k) \o <<e>> \o SubSeq(sorted, k + 1, Len(sorted))

(* list.sort(key=match_score, reverse=True): stable, equal scores keep     *)
(* their order                                                             *)
InsertDesc(sorted, e) ==
    LET k == Cardinality({i \in 1..Len(sorted) : sorted[i].match_score >= e.match_score})
    IN SubSeq(sorted, 1, k) \o <<e>> \o SubSeq(sorted, k + 1, Len(sorted))

RECURSIVE SortDesc(_)
SortDesc(recs) ==
    IF recs = <<>> THEN <<>>
    ELSE InsertDesc(SortDesc(SubSeq(recs, 1, Len(recs) - 1)), recs[Len(recs)])

(* mutant: the list is not cut *)
TruncateNothing(recs, n) == recs

(* recommendations[:top_n] *)
Truncate(recs, n) == SubSeq(recs, 1, Min(n, Len(recs)))

(* lines 86-96: the guard clauses and float(candidate.get("experience", 0)) *)
GuardOutcome(c, js) ==
    LET candidate_skills == Get(c.skills, Str(<<>>))
        bio == Get(c.bio, Str(<<>>))
    IN  IF TextRaises(bio) THEN "raised"
        ELSE IF Falsy(candidate_skills) /\ Strip(bio.val) = <<>> THEN "returned_early"
        ELSE IF js = <<>> THEN "returned_early"
        ELSE IF FloatRaises(Get(c.experience, Num(0))) THEN "raised"
        ELSE "phase1"

(* the whole call, for the shortlist cats of a trained classifier *)
recommend_jobs_for_new_candidate(c, js, n, is_trained, cats) ==
    LET g == GuardOutcome(c, js)
        candidate_experience == Get(c.experience, Num(0)).val
        p1 == IF is_trained
              THEN Phase1Loop(c, js, candidate_experience, cats, 1, <<>>)
              ELSE [recs |-> <<>>, failed |-> TRUE]
        p2 == IF Len(p1.recs) < n
              THEN Phase2Loop(c, js, candidate_experience, 1, p1.recs)
              ELSE [recs |-> p1.recs, raised |-> FALSE]
    IN  IF g = "raised" THEN [raised |-> TRUE, list |-> <<>>]
        ELSE IF g = "returned_early" THEN [raised |-> FALSE, list |-> <<>>]
        ELSE IF p2.raised THEN [raised |-> TRUE, list |-> <<>>]
        ELSE [raised |-> FALSE, list |-> Truncate(SortDesc(p2.recs), n)]

----------------------------------------------------------------------------
(* One call of recommend_jobs_for_new_candidate, in the steps of its code. *)

Init ==
    /\ candidate \in CandidateCatalogue
    /\ jobs \in DistinctSeqsUpTo(ServedJobs, MaxJobs)
    /\ top_n \in 1..MaxTopN
    /\ trained = FALSE
    /\ classes = {}
    /\ top_categories = {}
    /\ recommendations = <<>>
    /\ phase1_failed = FALSE
    /\ result = <<>>
    /\ score = NoScore
    /\ pc = "start"
    /\ profiles = <<>>
    /\ notifications = <<>>
    /\ runs = 0
    /\ calls = <<>>

(* train_model on the jobs collection, before the call *)
TrainModel ==
    /\ pc = "start"
    /\ ~trained
    /\ trained' = TRUE
    /\ classes' = TrainedClasses(JobCatalogue)
    /\ UNCHANGED <<candidate, jobs, top_n, top_categories, recommendations,
                   phase1_failed, result, score, pc, profiles, notifications, runs, calls>>

(* lines 86-96: return [] early, raise, or go on to the first pass *)
Guard ==
    /\ pc = "start"
    /\ pc' = GuardOutcome(candidate, jobs)
    /\ UNCHANGED <<candidate, jobs, top_n, trained, classes, top_categories,
                   recommendations, phase1_failed, result, score,
                   profiles, notifications, runs, calls>>

(* lines 99-121: the classifier's shortlist and the first pass; every      *)
(* exception is caught                                                     *)
Phase1 ==
    /\ pc = "phase1"
    /\ IF ~trained
       THEN /\ phase1_failed' = TRUE
            /\ UNCHANGED <<top_categories, recommendations>>
       ELSE \E cats \in TopCategorySets(classes, top_n) :
              LET out == Phase1Loop(candidate, jobs, Get(candidate.experience, Num(0)).val,
                                    cats, 1, <<>>)
              IN /\ top_categories' = cats
                 /\ recommendations' = out.recs
                 /\ phase1_failed' = out.failed
    /\ pc' = "phase2"
    /\ UNCHANGED <<candidate, jobs, top_n, trained, classes, result, score,
                   profiles, notifications, runs, calls>>

(* lines 124-140: the fallback pass when the first pass found fewer than top_n *)
Phase2 ==
    /\ pc = "phase2"
    /\ IF Len(recommendations) < top_n
       THEN LET out == Phase2Loop(candidate, jobs, Get(candidate.experience, Num(0)).val,
                                  1, recommendations)
            IN /\ recommendations' = out.recs
               /\ pc' = IF out.raised THEN "raised" ELSE "sort"
       ELSE /\ pc' = "sort"
            /\ UNCHANGED recommendations
    /\ UNCHANGED <<candidate, jobs, top_n, trained, classes, top_categories,
                   phase1_failed, result, score, profiles, notifications, runs, calls>>

(* lines 143-144: sort by match score and return the first top_n *)
SortAndReturn ==
    /\ pc = "sort"
    /\ result' = Truncate(SortDesc(recommendations), top_n)
    /\ pc' = "returned"
    /\ UNCHANGED <<candidate, jobs, top_n, trained, classes, top_categories,
                   recommendations, phase1_failed, score,
                   profiles, notifications, runs, calls>>

Next == TrainModel \/ Guard \/ Phase1 \/ Phase2 \/ SortAndReturn

Spec == Init /\ [][Next]_vars

----------------------------------------------------------------------------
(* The orchestration runs over the database: jobs is the jobs collection,  *)
(* profiles the profiles collection, notifications the notifications       *)
(* collection.  Each run is one execution of main(), a process of its own; *)
(* calls lists the train_model and recommend_jobs_for_new_candidate calls  *)
(* of the running process, in order.                                       *)

DefaultTopN == 5

(* create_notification: one record per recommendation, none for an empty list *)
create_notification(c, js, recs) ==
    [k \in 1..Len(recs) |->
        [user_email |-> c.email,
         job_title |-> js[recs[k].job].title,
         company |-> js[recs[k].job].company,
         match_score |-> recs[k].match_score,
         notification_type |-> "new_candidate"]]

(* lines 240-246: the emails that have a "new_candidate" notification *)
NotifiedEmails(notifs) ==
    {notifs[k].user_email :
        k \in {i \in 1..Len(notifs) : notifs[i].notification_type = "new_candidate"}}

(* lines 256-264: the candidates in order; an exception leaves the loop    *)
(* and keeps what was inserted before it                                   *)
RECURSIVE ProcessNewCandidates(_, _, _, _, _)
ProcessNewCandidates(new_candidates, js, cats_of, i, notifs) ==
    IF i > Len(new_candidates) THEN notifs
    ELSE LET recs == recommend_jobs_for_new_candidate(
                         new_candidates[i], js, DefaultTopN, TRUE, cats_of[i])
         IN IF recs.raised THEN notifs
            ELSE ProcessNewCandidates(
                     new_candidates, js, cats_of, i + 1,
                     notifs \o create_notification(new_candidates[i], js, recs.list))

(* the recommend calls of that loop: one per candidate, up to and          *)
(* including the one that raises                                           *)
RECURSIVE RecommendCallsMade(_, _, _, _)
RecommendCallsMade(new_candidates, js, cats_of, i) ==
    IF i > Len(new_candidates) THEN <<>>
    ELSE IF recommend_jobs_for_new_candidate(
                new_candidates[i], js, DefaultTopN, TRUE, cats_of[i]).raised
         THEN <<"recommend">>
         ELSE <<"recommend">> \o RecommendCallsMade(new_candidates, js, cats_of, i + 1)

(* find_one({"email": candidate_email}) *)
FindByEmail(profs, email) ==
    LET hits == {i \in 1..Len(profs) : profs[i].email = email}
    IN IF hits = {} THEN 0 ELSE CHOOSE i \in hits : \A k \in hits : i <= k

(* int(experience) of the typed text, 0 when it is not a number *)
TypedExperience(typed) == IF typed.tag = "num" THEN typed ELSE Num(0)

TypedTexts == {<<" ">>, <<"a", ",", "b", " ">>}
TypedNumbers == {Num(2), BadNum}
KnownEmails == {"e1", "e2", "e9"}

InitialProfiles == {<<>>, <<CandA, CandB>>, <<CandD, CandA, CandE, CandB>>}

InitialJobs == {<<>>, <<JobA, JobB, JobC, JobD, JobG>>, <<JobD, JobG, JobA, JobE>>}

InitOrch ==
    /\ candidate = NoCandidate
    /\ jobs \in InitialJobs
    /\ top_n = DefaultTopN
    /\ trained = FALSE
    /\ classes = {}
    /\ top_categories = {}
    /\ recommendations = <<>>
    /\ phase1_failed = FALSE
    /\ result = <<>>
    /\ score = NoScore
    /\ pc = "idle"
    /\ profiles \in InitialProfiles
    /\ notifications = <<>>
    /\ runs = 0
    /\ calls = <<>>

(* recommend_for_all_new_candidates, lines 230-273 *)
RecommendForAllNewCandidates ==
    /\ pc = "idle"
    /\ runs < MaxRuns
    /\ runs' = runs + 1
    /\ IF jobs = <<>>
       THEN /\ calls' = <<"train">>
            /\ UNCHANGED <<trained, classes, notifications>>
       ELSE LET notified_emails == NotifiedEmails(notifications)
                new_candidates == SelectSeq(profiles,
                                      LAMBDA c : c.email \notin notified_emails)
            IN /\ trained' = TRUE
               /\ classes' = TrainedClasses(jobs)
               /\ \E cats_of \in [1..Len(new_candidates) ->
                                     TopCategorySets(TrainedClasses(jobs), DefaultTopN)] :
                     /\ notifications' =
                           ProcessNewCandidates(new_candidates, jobs, cats_of, 1, notifications)
                     /\ calls' = <<"train">> \o
                           RecommendCallsMade(new_candidates, jobs, cats_of, 1)
    /\ UNCHANGED <<candidate, jobs, top_n, top_categories, recommendations,
                   phase1_failed, result, score, pc, profiles>>

(* recommend_for_single_candidate, lines 170-229; the typed answers are    *)
(* read only when the email is not in the profiles collection              *)
RecommendForSingleCandidate ==
    /\ pc = "idle"
    /\ runs < MaxRuns
    /\ runs' = runs + 1
    /\ \E candidate_email \in KnownEmails :
        IF jobs = <<>>
        THEN /\ calls' = <<"train">>
             /\ UNCHANGED <<trained, classes, profiles, notifications>>
        ELSE LET found == FindByEmail(profiles, candidate_email)
             IN \E c \in IF found # 0 THEN {profiles[found]}
                         ELSE {[email |-> candidate_email,
                                skills |-> Str(Strip(skills)),
                                bio |-> Str(Strip(bio)),
                                experience |-> TypedExperience(experience),
                                location |-> Str(Strip(<<"x", " ">>))] :
                                  skills \in TypedTexts, bio \in TypedTexts,
                                  experience \in TypedNumbers} :
                /\ trained' = TRUE
                /\ classes' = TrainedClasses(jobs)
                /\ profiles' = IF found = 0 THEN Append(profiles, c) ELSE profiles
                /\ calls' = <<"train", "recommend">>
                /\ \E cats \in TopCategorySets(TrainedClasses(jobs), DefaultTopN) :
                     LET recs == recommend_jobs_for_new_candidate(c, jobs, DefaultTopN, TRUE, cats)
                     IN notifications' =
                           IF recs.raised THEN notifications
                           ELSE notifications \o create_notification(c, jobs, recs.list)
    /\ UNCHANGED <<candidate, jobs, top_n, top_categories, recommendations,
                   phase1_failed, result, score, pc>>

NextOrch == RecommendForAllNewCandidates \/ RecommendForSingleCandidate

SpecOrch == InitOrch /\ [][NextOrch]_vars

----------------------------------------------------------------------------
(* The API server of api.py: one process that serves the /recommend        *)
(* requests one after the other.  jobs is the jobs collection, calls the   *)
(* train_model and recommend_jobs_for_new_candidate calls of the process,  *)
(* result the response of the last request.  The handler is modelled by    *)
(* its statements, the global statement of lines 77 and 107 taken as the   *)
(* declaration it is meant to be: as written it follows a use of the name, *)
(* which Python 3 rejects when it compiles the module.                     *)

ApiTopN == 10

(* the profiles a request can carry: every field is present and typed *)
ApiProfiles ==
    {Candidate("e1", Str(sk), Str(bio), Num(e), Str(loc)) :
        sk \in {<<>>, <<" ", "A">>, <<"a", ",", "b">>},
        bio \in {<<>>, <<"d">>},
        e \in 0..MaxExp,
        loc \in {<<"x">>, <<"y">>}}

(* lines 150-156: the stripped, non-blank pieces of required_skills *)
RequiredSkillsList(text) ==
    LET pieces == Split(text)
        stripped == [i \in 1..Len(pieces) |-> Strip(pieces[i])]
    IN IF text = <<>> THEN <<>> ELSE SelectSeq(stripped, LAMBDA x : x # <<>>)

(* lines 138-166: one returned entry in the response's format; the match   *)
(* score becomes score / 100                                               *)
FormatRecommendation(js, rec) ==
    [job_title |-> js[rec.job].title,
     company_name |-> js[rec.job].company,
     job_location |-> Get(js[rec.job].location, Str(<<>>)).val,
     required_skills |-> RequiredSkillsList(Get(js[rec.job].required_skills, Str(<<>>)).val),
     match_score_per_10000 |-> rec.match_score,
     experience_required |-> Get(js[rec.job].experience_required, Num(0)).val]

InitApi ==
    /\ candidate = NoCandidate
    /\ jobs \in InitialJobs
    /\ top_n = ApiTopN
    /\ trained = FALSE
    /\ classes = {}
    /\ top_categories = {}
    /\ recommendations = <<>>
    /\ phase1_failed = FALSE
    /\ result = [status |-> 0, recommendations |-> <<>>]
    /\ score = NoScore
    /\ pc = "boot"
    /\ profiles = <<>>
    /\ notifications = <<>>
    /\ runs = 0
    /\ calls = <<>>

(* startup_event, lines 52-63: the recommender is created and trained; a   *)
(* failing train_model only prints a warning                               *)
StartupEvent ==
    /\ pc = "boot"
    /\ pc' = "up"
    /\ calls' = Append(calls, "train")
    /\ IF jobs = <<>>
       THEN UNCHANGED <<trained, classes>>
       ELSE trained' = TRUE /\ classes' = TrainedClasses(jobs)
    /\ UNCHANGED <<candidate, jobs, top_n, top_categories, recommendations,
                   phase1_failed, result, score, profiles, notifications, runs>>

(* get_recommendations, lines 99-188: train_model, then the recommend call *)
(* with top_n=10, then the formatted response; any exception is a 500      *)
GetRecommendations ==
    /\ pc = "up"
    /\ runs < MaxRuns
    /\ runs' = runs + 1
    /\ \E profile \in ApiProfiles :
        IF jobs = <<>>
        THEN /\ calls' = Append(calls, "train")
             /\ result' = [status |-> 500, recommendations |-> <<>>]
             /\ UNCHANGED <<candidate, trained, classes>>
        ELSE /\ trained' = TRUE
             /\ classes' = TrainedClasses(jobs)
             /\ candidate' = profile
             /\ calls' = calls \o <<"train", "recommend">>
             /\ \E cats \in TopCategorySets(TrainedClasses(jobs), ApiTopN) :
                  LET recs == recommend_jobs_for_new_candidate(profile, jobs, ApiTopN, TRUE, cats)
                  IN result' =
                       IF recs.raised
                       THEN [status |-> 500, recommendations |-> <<>>]
                       ELSE [status |-> 200,
                             recommendations |->
                                 [k \in 1..Len(recs.list) |->
                                     FormatRecommendation(jobs, recs.list[k])]]
    /\ UNCHANGED <<jobs, top_n, top_categories, recommendations, phase1_failed,
                   score, pc, profiles, notifications>>

NextApi == StartupEvent \/ GetRecommendations

SpecApi == InitApi /\ [][NextApi]_vars

----------------------------------------------------------------------------
(* Properties of calculate_match_score, checked under SpecScore *)

Scored == pc = "scored" /\ ~score.raised

RequiredSkillsCovered == JobSkillSet(jobs[1]) \subseteq CandidateSkillSet(candidate)
ExperienceSufficient ==
    candidate.experience.val >= jobs[1].experience_required.val
LocationsEqual ==
    Lower(Strip(candidate.location.val)) = Lower(Strip(jobs[1].location.val))

C5_ScoreAndTermsInRange ==
    Scored =>
        LET sk == SkillTerm(CandidateSkillSet(candidate), JobSkillSet(jobs[1]))
            ex == ExperienceTerm(candidate.experience.val,
                                 jobs[1].experience_required.val)
            lo == LocationTerm(candidate.location.val, jobs[1].location.val)
        IN  /\ score.value >= 0 /\ score.value <= 10000
            /\ sk[2] > 0 /\ sk[1] >= 0 /\ sk[1] <= 50 * sk[2]
            /\ ex[2] > 0
            /\ IF ExperienceSufficient
               THEN ex[1] = 30 * ex[2]
               ELSE ex[1] >= 0 /\ ex[1] < 15 * ex[2]
            /\ lo \in {<<0, 1>>, <<20, 1>>}

(* an under-qualified candidate was scored and got partial experience credit *)
C5_Witness ==
    /\ Scored
    /\ ~ExperienceSufficient
    /\ candidate.experience.val > 0
    /\ score.value > 0

----------------------------------------------------------------------------
(* Properties of recommend_jobs_for_new_candidate, checked under Spec *)

Returned == pc \in {"returned", "returned_early"}

TitleCompany(e) == <<jobs[e.job].title, jobs[e.job].company>>

Phase1Count == Cardinality({k \in 1..Len(recommendations) : recommendations[k].phase = 1})

(* C1 as stated: the returned list never holds two entries with the same   *)
(* (title, company) pair.                                                  *)
C1_NoDuplicateTitleCompany ==
    Returned =>
        \A i, k \in 1..Len(result) :
            i # k => TitleCompany(result[i]) # TitleCompany(result[k])

(* C2: the returned list has at most top_n entries. *)
C2_LengthAtMostTopN == Returned => Len(result) <= top_n

(* more recommendations than top_n were collected and the list was cut *)
C2_Witness ==
    /\ pc = "returned"
    /\ Len(recommendations) > top_n
    /\ Len(result) = top_n

(* C3: no returned job requires more than the candidate's experience plus  *)
(* 3; a job that requires exactly the candidate's experience plus 3 is not *)
(* dropped by the filter: when the fallback pass ran and the job scores    *)
(* above 5, a recommendation with its title and company was collected.     *)
C3_ExperienceWindow ==
    Returned =>
        /\ \A k \in 1..Len(result) :
              jobs[result[k].job].experience_required.val
                  <= candidate.experience.val + 3
        /\ (pc = "returned" /\ Phase1Count < top_n) =>
              \A i \in 1..Len(jobs) :
                  ( /\ jobs[i].experience_required.tag = "num"
                    /\ jobs[i].experience_required.val = candidate.experience.val + 3
                    /\ ~ScoreRaises(candidate, jobs[i])
                    /\ Round2(UnroundedScore(candidate, jobs[i])) > 500 )
                  => \E k \in 1..Len(recommendations) :
                        TitleCompany(recommendations[k]) = <<jobs[i].title, jobs[i].company>>

(* a job requiring exactly the candidate's experience plus 3 was returned *)
C3_Witness ==
    /\ pc = "returned"
    /\ \E k \in 1..Len(result) :
          jobs[result[k].job].experience_required.val = candidate.experience.val + 3

(* C6 as stated: when the first pass fails, it contributes nothing and the *)
(* call returns what the fallback pass alone produces, sorted by           *)
(* descending score and cut to top_n.                                      *)
C6_FailedPhase1ReturnsFallbackAlone ==
    (pc = "returned" /\ phase1_failed) =>
        LET alone == Phase2Loop(candidate, jobs, candidate.experience.val, 1, <<>>)
        IN  /\ \A k \in 1..Len(recommendations) : recommendations[k].phase = 2
            /\ ~alone.raised
            /\ result = Truncate(SortDesc(alone.recs), top_n)

(* C7 as stated: with a trained model the call never raises. *)
C7_NeverRaisesOnceTrained == trained => pc # "raised"

(* no skill remains after trimming the comma-separated pieces *)
NoSkills(c) ==
    LET pieces == Split(Get(c.skills, Str(<<>>)).val)
    IN \A i \in 1..Len(pieces) : Strip(pieces[i]) = <<>>

BlankBio(c) == Strip(Get(c.bio, Str(<<>>)).val) = <<>>

(* C8 as stated: a candidate without skills (none left after trimming) and *)
(* without bio gets the empty list.                                        *)
C8_NoSignalReturnsEmpty ==
    (Returned /\ NoSkills(candidate) /\ BlankBio(candidate)) => result = <<>>

(* the order of the merged list: higher score first, then first pass       *)
(* before fallback pass, then the order of the job sequence                *)
Precedes(a, b) ==
    \/ a.match_score > b.match_score
    \/ /\ a.match_score = b.match_score
       /\ \/ a.phase < b.phase
          \/ a.phase = b.phase /\ a.job < b.job

(* C9: the returned list is in non-increasing score order, ties keep first *)
(* pass before fallback pass and then the job order, and the list is the   *)
(* first top_n entries of the merged list in that order.                   *)
C9_StableDescendingPrefix ==
    pc = "returned" =>
        /\ \A i, k \in 1..Len(result) : i < k => Precedes(result[i], result[k])
        /\ Len(result) = Min(top_n, Len(recommendations))
        /\ Range(result) \subseteq Range(recommendations)
        /\ \A e \in Range(recommendations) \ Range(result) :
              \A k \in 1..Len(result) : Precedes(result[k], e)

(* equal scores from both passes were returned and a collected entry was cut *)
C9_Witness ==
    /\ pc = "returned"
    /\ Len(recommendations) > Len(result)
    /\ \E i, k \in 1..Len(result) :
          /\ i < k
          /\ result[i].match_score = result[k].match_score
          /\ result[i].phase = 1
          /\ result[k].phase = 2

(* the (title, company) pairs of the job sequence are pairwise distinct *)
DistinctTitleCompany ==
    \A i, k \in 1..Len(jobs) :
        i # k => <<jobs[i].title, jobs[i].company>> # <<jobs[k].title, jobs[k].company>>

(* job i passes the experience window and scores above 5 *)
Qualifies(i) ==
    /\ Get(jobs[i].experience_required, Num(0)).tag = "num"
    /\ jobs[i].experience_required.val <= candidate.experience.val + 3
    /\ ~ScoreRaises(candidate, jobs[i])
    /\ Round2(UnroundedScore(candidate, jobs[i])) > 500

ReturnedJobs == {result[k].job : k \in 1..Len(result)}

(* C12: for pairwise distinct (title, company) pairs, when the first pass  *)
(* yields fewer than top_n entries the returned list is the top_n highest  *)
(* scoring jobs among those that pass the window and score above 5: each  *)
(* returned entry is such a job with its score, no job is returned twice,  *)
(* and a qualifying job is left out only of a full list whose scores are   *)
(* all at least its own; every first-pass entry scores above 10 and has a  *)
(* title among the classifier's top labels.                                *)
C12_TopNOfQualifyingJobs ==
    (pc = "returned" /\ DistinctTitleCompany /\ Phase1Count < top_n) =>
        /\ \A k \in 1..Len(result) :
              /\ Qualifies(result[k].job)
              /\ result[k].match_score =
                     Round2(UnroundedScore(candidate, jobs[result[k].job]))
              /\ result[k].phase = 1 =>
                     /\ result[k].match_score > 1000
                     /\ jobs[result[k].job].title \in top_categories
                     /\ Cardinality(top_categories) <= 3 * top_n
        /\ Cardinality(ReturnedJobs) = Len(result)
        /\ \A i \in 1..Len(jobs) :
              (Qualifies(i) /\ i \notin ReturnedJobs) =>
                  /\ Len(result) = top_n
                  /\ \A k \in 1..Len(result) :
                        result[k].match_score >=
                            Round2(UnroundedScore(candidate, jobs[i]))

(* the fallback pass ran after a first pass that found something, and a    *)
(* qualifying job with a lower score was left out of the full list         *)
C12_Witness ==
    /\ pc = "returned"
    /\ DistinctTitleCompany
    /\ Phase1Count < top_n
    /\ \E k \in 1..Len(result) : result[k].phase = 1
    /\ \E k \in 1..Len(result) : result[k].phase = 2
    /\ \E i \in 1..Len(jobs) :
          /\ Qualifies(i)
          /\ i \notin ReturnedJobs
          /\ \A k \in 1..Len(result) :
                result[k].match_score > Round2(UnroundedScore(candidate, jobs[i]))

----------------------------------------------------------------------------
(* Properties of the orchestration runs, checked under SpecOrch *)

NotificationsOf(notifs, email) == SelectSeq(notifs, LAMBDA n : n.user_email = email)

AllEmails == KnownEmails \cup {c.email : c \in CandidateCatalogue}

(* C10 as stated: once an email has a "new_candidate" notification, no     *)
(* later run writes further notification records for that email.           *)
C10_NotifiedNeverReprocessed ==
    [][\A e \in AllEmails :
          e \in NotifiedEmails(notifications) =>
              NotificationsOf(notifications', e) = NotificationsOf(notifications, e)]_vars

----------------------------------------------------------------------------
(* Properties of a serving session, checked under SpecApi *)

TrainCalls == {i \in 1..Len(calls) : calls[i] = "train"}
RecommendCalls == {i \in 1..Len(calls) : calls[i] = "recommend"}

====
